---- MODULE Spec2Model ----
(***************************************************************************)
(* Model of the Bitwarden lookup plugin (lookup_plugins/bitwarden.py).     *)
(*                                                                         *)
(* Representation.                                                         *)
(*  - A term / key / item name / item id is a sequence of words: the       *)
(*    Python string "Shared Login" is <<"Shared", "Login">>, so that       *)
(*    key.split(' ') can be computed.  The empty string is << >>.          *)
(*  - A field is the sequence of its dot-separated segments: the Python    *)
(*    string "fields.api_key" is <<"fields", "api_key">>.                  *)
(*  - Python None is the string NoneV.                                     *)
(*  - A JSON value that is navigated is a tagged record [t, v], t one of   *)
(*    "obj", "list", "str", "null".                                        *)
(*  - The bw command line client is the environment: its answers are       *)
(*    computed from the vault (BwExec), and it may start failing with a    *)
(*    chosen error output after a chosen number of invocations.            *)
(***************************************************************************)
EXTENDS Integers, Sequences, FiniteSets, TLC

VARIABLES
    vault,           \* the vault's items, in the order the bw search lists them
    vaultStatus,     \* what `bw status` reports
    faultOut,        \* the output bw prints when it fails for an outside reason
    kwargs,          \* the options of LookupModule.run
    terms,           \* the terms of LookupModule.run
    pc,              \* position in LookupModule.run
    idx,             \* index of the term being processed
    aidx,            \* index of the attachment being processed
    values,          \* LookupModule.run: values
    outcome,         \* how the run / the last operation ended
    calls,           \* every bw invocation made so far, in order
    collectionId,    \* Bitwarden.collectionId
    organizationId,  \* Bitwarden.organizationId
    session,         \* Bitwarden._bw_session
    probe            \* inputs and result of the last directly applied function

vars == <<vault, vaultStatus, faultOut, kwargs, terms, pc, idx, aidx, values,
          outcome, calls, collectionId, organizationId, session, probe>>

NoneV == "None"

----------------------------------------------------------------------------
(* Bounds *)

MaxItems == 2
MaxTerms == 2
MaxOk == 3
MaxChecks == 2

----------------------------------------------------------------------------
(* The vault: universes of the values the model draws from *)

ItemIds == <<"i1", "i2", "i3">>

ItemNames == {<<"Shared">>, <<"Shared", "Login">>}

CollectionDir ==
    << [id |-> "c1", name |-> "Ops"],
       [id |-> "c2", name |-> "DevOps"],
       [id |-> "c3", name |-> "Ops"] >>

OrganizationDir ==
    << [id |-> "o1", name |-> "Acme"],
       [id |-> "o2", name |-> "Beta"] >>

UUIDs == {"c1", "c2", "c3", "c9", "o1", "o2", "o9"}

Memberships ==
    { [organizationId |-> NoneV, collectionIds |-> {}],
      [organizationId |-> "o1", collectionIds |-> {"c1"}],
      [organizationId |-> "o2", collectionIds |-> {"c2"}],
      [organizationId |-> "o1", collectionIds |-> {"c1", "c2"}] }

FieldLists ==
    { << >>,
      << [name |-> "X", value |-> "v1"] >>,
      << [name |-> "X", value |-> "v1"], [name |-> "Y", value |-> "v2"],
         [name |-> "X", value |-> "v3"] >> }

AttachmentLists ==
    { << >>,
      << [id |-> <<"a1">>, fileName |-> <<"id_rsa">>] >>,
      << [id |-> <<"a1">>, fileName |-> <<"id_rsa">>],
         [id |-> <<"a2">>, fileName |-> <<"id_rsa">>] >> }

MkItem(i, n, m, fl, al) ==
    [id |-> <<ItemIds[i]>>, name |-> n,
     organizationId |-> m.organizationId, collectionIds |-> m.collectionIds,
     fields |-> fl, attachments |-> al]

----------------------------------------------------------------------------
(* Errors.  kind is the error kind, msg the fixed part of the message, out  *)
(* the raw bw output an unknown failure carries, arg the argument named.    *)

MkErr(kind, msg, out, arg) == [kind |-> kind, msg |-> msg, out |-> out, arg |-> arg]

NoErr == MkErr("", "", "", << >>)

Return(val, ctx) == [ok |-> TRUE, val |-> val, err |-> NoErr, ctx |-> ctx]

Raise(err, ctx) == [ok |-> FALSE, val |-> NoneV, err |-> err, ctx |-> ctx]

\* `except AnsibleError` catches what the plugin and _run raise, not the
\* KeyError / IndexError of a failed subscript.
IsAnsibleError(err) == err.kind \notin {"", "KeyError", "IndexError"}

\* `"More than one result was found." in err.message`
HasMoreThanOneResult(err) ==
    err.kind = "UnknownCliError" /\ err.out = "More than one result was found."

\* `"not found" in err.message`
HasNotFound(err) ==
    \/ err.msg = "Specified item not found"
    \/ err.kind = "UnknownCliError" /\ err.out = "Attachment was not found."

----------------------------------------------------------------------------
(* The bw command line client (the environment of the plugin)              *)

MkCall(cmd, obj, key, search, output, itemid) ==
    [cmd |-> cmd, obj |-> obj, key |-> key, search |-> search,
     output |-> output, itemid |-> itemid, session |-> "", rc |-> 0, out |-> ""]

\* The objects `bw get` knows and the model answers from an item.
BwItemObjects == {"item", "password", "username"}

\* q occurs in name as a run of consecutive words (bw's substring search)
IsSub(q, name) ==
    /\ Len(q) >= 1
    /\ \E k \in 0..(Len(name) - Len(q)) : \A j \in 1..Len(q) : name[k + j] = q[j]

SearchItems(v, q) == SelectSeq(v, LAMBDA it : it.id = q \/ IsSub(q, it.name))

BwFail(out) == [rc |-> 1, out |-> out, val |-> NoneV]

BwOk(val) == [rc |-> 0, out |-> "", val |-> val]

\* bw's answer when a lookup found these objects: exactly one is wanted
BwPickOne(found) ==
    IF Len(found) > 1 THEN BwFail("More than one result was found.")
    ELSE IF Len(found) = 1 THEN BwOk(found[1])
    ELSE BwFail("Not found.")

\* bw's lookup of one item: by id, else by search
BwGetCipher(v, key) ==
    LET byId == SelectSeq(v, LAMBDA it : it.id = key)
    IN  BwPickOne(IF Len(byId) >= 1 THEN byId ELSE SearchItems(v, key))

BwGetOrganization(ref) ==
    BwPickOne(SelectSeq(OrganizationDir, LAMBDA o : o.id = ref \/ o.name = ref))

\* the collection names a search for ref lists: the name contains ref
CollectionNameContains(name, ref) ==
    name = ref \/ (name = "DevOps" /\ ref \in {"Dev", "Ops"})

BwListCollections(ref) ==
    BwOk(SelectSeq(CollectionDir, LAMBDA c : CollectionNameContains(c.name, ref)))

\* bw get attachment, once the item is looked up: the attachments whose id
\* is the key or whose file name contains it
BwAttachmentOf(cipher, atts, call) ==
    IF Len(atts) > 1 THEN BwFail("More than one result was found.")
    ELSE IF Len(atts) = 1 THEN BwOk([saved |-> call.output, attachment |-> atts[1].id,
                                     item |-> cipher.id])
    ELSE BwFail("Attachment was not found.")

BwGetAttachmentFrom(cipher, call) ==
    IF cipher.rc # 0 THEN cipher
    ELSE BwAttachmentOf(cipher.val,
                        SelectSeq(cipher.val.attachments,
                                  LAMBDA a : a.id = call.key \/ IsSub(call.key, a.fileName)),
                        call)

BwGetAttachment(v, call) == BwGetAttachmentFrom(BwGetCipher(v, call.itemid), call)

BwGetObjectFrom(cipher, call) ==
    IF cipher.rc # 0 THEN cipher ELSE BwOk([obj |-> call.obj[1], item |-> cipher.val])

BwGet(v, call) ==
    IF call.obj = <<"organization">> THEN BwGetOrganization(call.key[1])
    ELSE IF call.obj = <<"attachment">> THEN BwGetAttachment(v, call)
    ELSE IF Len(call.obj) # 1 \/ call.obj[1] \notin BwItemObjects
         THEN BwFail("Unknown object.")
    ELSE BwGetObjectFrom(BwGetCipher(v, call.key), call)

\* What one invocation of bw answers: exit code, output, and (on success)
\* the value the output denotes.  healthy = FALSE: bw fails with output fo.
BwExec(v, st, fo, healthy, call) ==
    IF ~healthy THEN BwFail(fo)
    ELSE IF call.cmd = "status" THEN BwOk(st)
    ELSE IF call.cmd = "sync" THEN BwOk("Syncing complete.")
    ELSE IF call.cmd = "get" THEN BwGet(v, call)
    ELSE IF call.obj = <<"items">> THEN BwOk(SearchItems(v, call.search[1]))
    ELSE BwListCollections(call.key[1])

----------------------------------------------------------------------------
(* class Bitwarden.  ctx is the instance together with the invocation log: *)
(* [calls, okLeft, collectionId, organizationId, session]; okLeft is the   *)
(* number of invocations bw still answers before it starts failing (-1:    *)
(* it never fails).  A function of the class is an operator from ctx and   *)
(* its arguments to [ok, val, err, ctx]: the value returned or the error   *)
(* raised, and the instance afterwards.  The operators named After... are  *)
(* the rest of a function after the call whose result is their first       *)
(* parameter.                                                              *)

MkCtx(cs, okLeft, cid, oid, sess) ==
    [calls |-> cs, okLeft |-> okLeft, collectionId |-> cid,
     organizationId |-> oid, session |-> sess]

LastArg(call) ==
    IF call.cmd = "get" /\ call.obj = <<"attachment">> THEN call.itemid
    ELSE IF call.cmd = "list" /\ call.obj = <<"items">> THEN call.search[Len(call.search)]
    ELSE IF call.cmd \in {"get", "list"} THEN call.key
    ELSE <<call.cmd>>

\* the outputs of bw that are longer than the prefix _run knows them by
LongOutputs ==
    { <<"Vault is locked. Not found.", "Vault is locked.">>,
      <<"Not found. You are not logged in.", "Not found.">> }

\* out.startswith(prefix)
StartsWith(out, prefix) == out = prefix \/ <<out, prefix>> \in LongOutputs

\* _run, lines 112-129: the error raised for a non-zero exit code
Classify(out, call) ==
    IF StartsWith(out, "Vault is locked.")
        THEN MkErr("VaultLockedError", "Run 'bw unlock' to unlock the vault.", "", << >>)
    ELSE IF StartsWith(out, "You are not logged in.")
        THEN MkErr("NotLoggedInError", "Run 'bw login' to login.", "", << >>)
    ELSE IF StartsWith(out, "Failed to decrypt.")
        THEN MkErr("SessionInvalidError", "Make sure BW_SESSION is set properly.", "", << >>)
    ELSE IF StartsWith(out, "Not found.")
        THEN MkErr("ItemNotFoundError", "Specified item not found", "", LastArg(call))
    ELSE MkErr("UnknownCliError", "Unknown failure in 'bw' command", out, << >>)

\* a variant that never passes the session of the instance
WithEnv_Inherited(ctx, call) == [call EXCEPT !.session = "inherited"]

\* lines 104-106: the environment of the child process
WithEnv(ctx, call) ==
    [call EXCEPT !.session = IF ctx.session # "" THEN ctx.session ELSE "inherited"]

\* the instance and log after one more invocation, which exited with raw.rc
\* and printed raw.out
Invoked(ctx, c, raw) ==
    [ctx EXCEPT !.calls = Append(@, [c EXCEPT !.rc = raw.rc, !.out = raw.out]),
                !.okLeft = IF @ > 0 THEN @ - 1 ELSE @]

\* a variant that raises only for the outputs it knows
AfterPopen_UnknownReturns(raw, ctx, c) ==
    IF raw.rc # 0 /\ Classify(raw.out, c).kind # "UnknownCliError"
    THEN Raise(Classify(raw.out, c), Invoked(ctx, c, raw))
    ELSE Return(raw.val, Invoked(ctx, c, raw))

\* lines 112-130
AfterPopen(raw, ctx, c) ==
    IF raw.rc # 0 THEN Raise(Classify(raw.out, c), Invoked(ctx, c, raw))
    ELSE Return(raw.val, Invoked(ctx, c, raw))

\* _run, lines 103-130
_run(ctx, call) ==
    AfterPopen(BwExec(vault, vaultStatus, faultOut, ctx.okLeft # 0, WithEnv(ctx, call)),
               ctx, WithEnv(ctx, call))

is_valid_uuid(value) == value \in UUIDs

AfterSyncRun(r) == IF r.ok THEN Return(NoneV, r.ctx) ELSE r

\* sync, lines 132-133
sync(ctx) == AfterSyncRun(_run(ctx, MkCall("sync", << >>, << >>, << >>, << >>, << >>)))

AfterStatusRun(r) ==
    IF ~r.ok THEN r
    ELSE IF r.val = "malformed"
         THEN Raise(MkErr("StatusDecodeError", "Error decoding Bitwarden status",
                          "", << >>), r.ctx)
    ELSE Return(r.val, r.ctx)

\* status, lines 135-140
status(ctx) == AfterStatusRun(_run(ctx, MkCall("status", << >>, << >>, << >>, << >>, << >>)))

AfterStatus(r) == IF ~r.ok THEN r ELSE Return(r.val = "unlocked", r.ctx)

\* logged_in, lines 95-101
logged_in(ctx) == AfterStatus(status(ctx))

\* line 217: next(map(id, filter(name == collection, ...)), None)
FirstNamed(listed, name) ==
    LET named == SelectSeq(listed, LAMBDA c : c.name = name)
    IN  IF Len(named) >= 1 THEN named[1].id ELSE NoneV

\* a variant that does not raise when no collection has the name
AfterListCollections_NoRaise(r, collection) ==
    IF ~r.ok THEN r
    ELSE Return(NoneV, [r.ctx EXCEPT !.collectionId = FirstNamed(r.val, collection)])

\* lines 217-220, once the collections are listed
AfterListCollections(r, collection) ==
    IF ~r.ok THEN r
    ELSE IF FirstNamed(r.val, collection) = NoneV
         THEN Raise(MkErr("ScopeNotFoundError", "no collectionId found", "",
                          <<collection>>),
                    [r.ctx EXCEPT !.collectionId = NoneV])
    ELSE Return(NoneV, [r.ctx EXCEPT !.collectionId = FirstNamed(r.val, collection)])

\* a variant that resolves the collection anew at every call
ResolveCollection_NoCache(ctx, collection) ==
    IF collection = NoneV THEN Return(NoneV, [ctx EXCEPT !.collectionId = NoneV])
    ELSE IF is_valid_uuid(collection)
         THEN Return(NoneV, [ctx EXCEPT !.collectionId = collection])
    ELSE AfterListCollections(_run(ctx, MkCall("list", <<"collections">>, <<collection>>,
                                               << >>, << >>, << >>)), collection)

\* lines 210-220: the collection part of isInCollectionAndOranisation;
\* the result's val is unused, its ctx carries self.collectionId
ResolveCollection(ctx, collection) ==
    IF collection = NoneV THEN Return(NoneV, [ctx EXCEPT !.collectionId = NoneV])
    ELSE IF ctx.collectionId # NoneV THEN Return(NoneV, ctx)
    ELSE IF is_valid_uuid(collection)
         THEN Return(NoneV, [ctx EXCEPT !.collectionId = collection])
    ELSE AfterListCollections(_run(ctx, MkCall("list", <<"collections">>, <<collection>>,
                                               << >>, << >>, << >>)), collection)

\* lines 229-232, once the organization is fetched
AfterGetOrganization(r, organization) ==
    IF ~r.ok
    THEN Raise(MkErr("ScopeNotFoundError", "no organizationId found", "",
                     <<organization>>), r.ctx)
    ELSE Return(NoneV, [r.ctx EXCEPT !.organizationId = r.val.id])

\* lines 222-232: the organization part of isInCollectionAndOranisation
ResolveOrganization(ctx, organization) ==
    IF organization = NoneV THEN Return(NoneV, [ctx EXCEPT !.organizationId = NoneV])
    ELSE IF ctx.organizationId # NoneV THEN Return(NoneV, ctx)
    ELSE IF is_valid_uuid(organization)
         THEN Return(NoneV, [ctx EXCEPT !.organizationId = organization])
    ELSE AfterGetOrganization(_run(ctx, MkCall("get", <<"organization">>, <<organization>>,
                                               << >>, << >>, << >>)), organization)

\* lines 234-235: Python parses `a or b and c` as `a or (b and c)`
ScopeTest(cid, oid, item) ==
    \/ cid = NoneV
    \/ /\ cid \in item.collectionIds
       /\ (oid = NoneV \/ item.organizationId = oid)

AfterResolveOrganization(ro, item) ==
    IF ~ro.ok THEN ro
    ELSE Return(ScopeTest(ro.ctx.collectionId, ro.ctx.organizationId, item), ro.ctx)

AfterResolveCollection(rc, item, organization) ==
    IF ~rc.ok THEN rc
    ELSE AfterResolveOrganization(ResolveOrganization(rc.ctx, organization), item)

\* isInCollectionAndOranisation, lines 209-235
isInCollectionAndOranisation(ctx, item, organization, collection) ==
    AfterResolveCollection(ResolveCollection(ctx, collection), item, organization)

NoItemFound(key) ==
    MkErr("ItemNotFoundError", "no item in organization and/or collection found", "", key)

\* the for loop of __searchForIdWithKeys, lines 197-207, from element i on;
\* AfterScopeCheck is the loop body after the call in line 200
RECURSIVE SearchLoop(_, _, _, _, _, _)
RECURSIVE AfterScopeCheck(_, _, _, _, _, _)
SearchLoop(ctx, allData, i, key, organization, collection) ==
    IF i > Len(allData) THEN Raise(NoItemFound(key), ctx)
    ELSE IF allData[i].name # key
         THEN SearchLoop(ctx, allData, i + 1, key, organization, collection)
    ELSE AfterScopeCheck(isInCollectionAndOranisation(ctx, allData[i], organization,
                                                      collection),
                         allData, i, key, organization, collection)

\* a variant that takes the first item of the name, in scope or not
AfterScopeCheck_AnyScope(r, allData, i, key, organization, collection) ==
    IF ~r.ok THEN r ELSE Return(allData[i].id, r.ctx)

AfterScopeCheck(r, allData, i, key, organization, collection) ==
    IF ~r.ok THEN r
    ELSE IF ~r.val THEN SearchLoop(r.ctx, allData, i + 1, key, organization, collection)
    ELSE Return(allData[i].id, r.ctx)

AfterListItems(r, key, organization, collection) ==
    IF ~r.ok THEN r ELSE SearchLoop(r.ctx, r.val, 1, key, organization, collection)

\* __searchForIdWithKeys, lines 193-207
__searchForIdWithKeys(ctx, key, organization, collection, keys) ==
    AfterListItems(_run(ctx, MkCall("list", <<"items">>, << >>, keys, << >>, << >>)),
                   key, organization, collection)

\* key.split(' ')
SplitWords(key) == [i \in 1..Len(key) |-> <<key[i]>>]

\* a variant that searches with the split term whatever the first search gave
AfterFirstSearch_AlwaysSplit(r, key, organization, collection) ==
    IF ~r.ok /\ ~IsAnsibleError(r.err) THEN r
    ELSE __searchForIdWithKeys(r.ctx, key, organization, collection, SplitWords(key))

\* lines 190-191
AfterFirstSearch(r, key, organization, collection) ==
    IF r.ok \/ ~IsAnsibleError(r.err) THEN r
    ELSE __searchForIdWithKeys(r.ctx, key, organization, collection, SplitWords(key))

\* searchForId, lines 187-191
searchForId(ctx, key, organization, collection) ==
    AfterFirstSearch(__searchForIdWithKeys(ctx, key, organization, collection, <<key>>),
                     key, organization, collection)

----------------
(* JSON values as json.loads returns them, for the field navigation        *)

JStr(x) == [t |-> "str", v |-> x]

JNull == [t |-> "null", v |-> NoneV]

JList(q) == [t |-> "list", v |-> q]

JObj(f) == [t |-> "obj", v |-> f]

\* a collectionIds set as the list bw prints
SeqOfSet(S) == SelectSeq(<<"c1", "c2", "c3", "c9">>, LAMBDA c : c \in S)

\* the object `bw get item` prints for a vault item
ItemJson(it) ==
    JObj([id |-> JStr(it.id[1]),
          name |-> [t |-> "text", v |-> it.name],
          organizationId |-> IF it.organizationId = NoneV THEN JNull
                             ELSE JStr(it.organizationId),
          collectionIds |-> JList([i \in 1..Len(SeqOfSet(it.collectionIds)) |->
                                      JStr(SeqOfSet(it.collectionIds)[i])]),
          login |-> JObj([username |-> JStr("alice"), password |-> JStr("secret")]),
          fields |-> JList([i \in 1..Len(it.fields) |->
                               JObj([name |-> JStr(it.fields[i].name),
                                     value |-> JStr(it.fields[i].value)])]),
          attachments |-> JList([i \in 1..Len(it.attachments) |->
                               JObj([id |-> JStr(it.attachments[i].id[1]),
                                     fileName |-> [t |-> "text",
                                                   v |-> it.attachments[i].fileName]])])])

HasKey(e, k) == e.t = "obj" /\ k \in DOMAIN e.v

NavOk(val) == [ok |-> TRUE, val |-> val, err |-> NoErr]

NavErr(err) == [ok |-> FALSE, val |-> NoneV, err |-> err]

\* a variant that returns the bare value when one entry is named v
FieldsBranch_Scalar(item, v) ==
    LET filtered == SelectSeq(item.v, LAMBDA e : HasKey(e, "name") /\ e.v["name"] = JStr(v))
    IN  IF Len(filtered) = 1 THEN NavOk(filtered[1].v["value"])
        ELSE NavOk(JList([i \in 1..Len(filtered) |-> filtered[i].v["value"]]))

\* lines 168-169: the values of the entries named v
FieldsBranch(item, v) ==
    LET filtered == SelectSeq(item.v, LAMBDA e : HasKey(e, "name") /\ e.v["name"] = JStr(v))
    IN  IF \E i \in 1..Len(filtered) : ~HasKey(filtered[i], "value")
        THEN NavErr(MkErr("KeyError", "", "", <<"value">>))
        ELSE NavOk(JList([i \in 1..Len(filtered) |-> filtered[i].v["value"]]))

\* the for loop of get_entry, lines 163-175, from segment i on
RECURSIVE NavLoop(_, _, _, _, _)
NavLoop(item, splitted, i, field, key) ==
    IF i > Len(splitted) THEN NavOk(item)
    ELSE LET v == splitted[i]
         IN  IF HasKey(item, v) THEN NavLoop(item.v[v], splitted, i + 1, field, key)
             ELSE IF item.t = "list"
                  THEN IF splitted[1] = "fields" THEN FieldsBranch(item, v)
                       ELSE IF Len(item.v) = 0
                            THEN NavErr(MkErr("IndexError", "", "", << >>))
                       ELSE IF item.v[1].t = "obj"
                            THEN IF \E j \in 1..Len(item.v) : ~HasKey(item.v[j], v)
                                 THEN NavErr(MkErr("KeyError", "", "", <<v>>))
                                 ELSE NavLoop(JList([j \in 1..Len(item.v) |-> item.v[j].v[v]]),
                                              splitted, i + 1, field, key)
                       ELSE NavLoop(item, splitted, i + 1, field, key)
             ELSE NavErr(MkErr("FieldNotFoundError",
                               "no field for item in organization and/or collection found",
                               "", field \o key))

\* lines 162-175: field.split(".") and the navigation loop
Navigate(item, field, key) == NavLoop(item, field, 1, field, key)

NavResult(nav, ctx) == IF nav.ok THEN Return(nav.val, ctx) ELSE Raise(nav.err, ctx)

\* lines 160-175, once the scope check of line 160 returned
AfterItemScopeCheck(r, item, key, field) ==
    IF ~r.ok THEN r
    ELSE IF ~r.val
         THEN Raise(MkErr("ScopeMismatchError", "no item in organization/collection found",
                          "", key), r.ctx)
    ELSE NavResult(Navigate(ItemJson(item), field, key), r.ctx)

\* lines 157-175, once the item is fetched
AfterGetItem(r, key, field, organization, collection) ==
    IF ~r.ok THEN r
    ELSE AfterItemScopeCheck(isInCollectionAndOranisation(r.ctx, r.val.item, organization,
                                                          collection),
                             r.val.item, key, field)

\* lines 154-176
ItemFallback(ctx, foundId, key, field, organization, collection) ==
    IF field # <<"item">>
    THEN AfterGetItem(_run(ctx, MkCall("get", <<"item">>,
                                       IF foundId # << >> THEN foundId ELSE key,
                                       << >>, << >>, << >>)),
                      key, field, organization, collection)
    ELSE Raise(NoItemFound(key), ctx)

\* lines 151-153: the get with the id found has run, foundId is set
AfterGetFound(r, foundId, key, field, organization, collection) ==
    IF r.ok THEN r
    ELSE ItemFallback(r.ctx, foundId, key, field, organization, collection)

\* lines 150-176, once searchForId has run
AfterSearchForId(r, key, field, organization, collection) ==
    IF r.ok
    THEN AfterGetFound(_run(r.ctx, MkCall("get", field, r.val, << >>, << >>, << >>)),
                       r.val, key, field, organization, collection)
    ELSE IF ~IsAnsibleError(r.err) THEN r
    ELSE ItemFallback(r.ctx, << >>, key, field, organization, collection)

\* lines 145-176, once the direct get has run
AfterDirectGet(r, key, field, organization, collection) ==
    IF r.ok THEN r
    ELSE AfterSearchForId(searchForId(r.ctx, key, organization, collection),
                          key, field, organization, collection)

\* get_entry, lines 142-176
get_entry(ctx, key, field, organization, collection) ==
    AfterDirectGet(_run(ctx, MkCall("get", field, key, << >>, << >>, << >>)),
                   key, field, organization, collection)

\* lines 239-242, 249-252, 261-264: attachmentArray
AttachmentCall(key, out, itemid) == MkCall("get", <<"attachment">>, key, << >>, out, itemid)

\* the for loop of get_attachments, lines 258-265, from element i on
RECURSIVE AttachmentLoop(_, _, _, _, _, _)
AttachmentLoop(ctx, attachmentList, i, key, out, itemid) ==
    IF i > Len(attachmentList) THEN Return(NoneV, ctx)
    ELSE IF attachmentList[i].fileName # key
         THEN AttachmentLoop(ctx, attachmentList, i + 1, key, out, itemid)
    ELSE _run(ctx, AttachmentCall(attachmentList[i].id, out, itemid))

\* lines 257-265, once get_entry(itemid, 'item') has run
AfterGetItemEntry(r, key, out, itemid) ==
    IF ~r.ok THEN r
    ELSE AttachmentLoop(r.ctx, r.val.item.attachments, 1, key, out, itemid)

\* lines 253-265: the retry has run; err is the error of the first attempt
AfterRetry(r, err, key, out, itemid, organization, collection) ==
    IF r.ok THEN r
    ELSE IF HasMoreThanOneResult(err)
         THEN AfterGetItemEntry(get_entry(r.ctx, itemid, <<"item">>, organization, collection),
                                key, out, itemid)
    ELSE Return(NoneV, r.ctx)

\* lines 247-265, once searchForId has run (outside the inner try)
AfterItemSearch(r, err, key, out, organization, collection) ==
    IF ~r.ok THEN r
    ELSE AfterRetry(_run(r.ctx, AttachmentCall(key, out, r.val)),
                    err, key, out, r.val, organization, collection)

\* lines 243-267, once the first attempt has run
AfterFirstAttempt(r, key, itemid, out, organization, collection) ==
    IF r.ok THEN r
    ELSE IF HasMoreThanOneResult(r.err) \/ HasNotFound(r.err)
         THEN AfterItemSearch(searchForId(r.ctx, itemid, organization, collection),
                              r.err, key, out, organization, collection)
    ELSE Raise(r.err, r.ctx)

\* get_attachments, lines 237-267
get_attachments(ctx, key, itemid, output, filename, organization, collection) ==
    AfterFirstAttempt(_run(ctx, AttachmentCall(key, output \o filename, itemid)),
                      key, itemid, output \o filename, organization, collection)

----------------------------------------------------------------------------
(* LookupModule.run, lines 274-310, one action per step                    *)

Ctx(okLeft) == MkCtx(calls, okLeft, collectionId, organizationId, session)

\* bw answers every invocation (-1) or fails from invocation okLeft + 1 on;
\* faultOut = "": nothing outside the vault makes bw fail
FaultBudgets == IF faultOut = "" THEN {-1} ELSE {-1} \cup 0..MaxOk

Running == [status |-> "running", err |-> NoErr]

Returned == [status |-> "returned", err |-> NoErr]

Raised(err) == [status |-> "raised", err |-> err]

Store(ctx) ==
    /\ calls' = ctx.calls
    /\ collectionId' = ctx.collectionId
    /\ organizationId' = ctx.organizationId
    /\ session' = ctx.session

Fail(r) ==
    /\ pc' = "failed"
    /\ outcome' = Raised(r.err)
    /\ Store(r.ctx)

\* line 275: Bitwarden(path=...), __init__ lines 75-81
Construct ==
    /\ pc = "start"
    /\ IF kwargs.path = "bw"
       THEN pc' = "gate" /\ outcome' = outcome
       ELSE pc' = "failed" /\
            outcome' = Raised(MkErr("CommandNotFound", "Command not found", "", << >>))
    /\ UNCHANGED <<vault, vaultStatus, faultOut, kwargs, terms, idx, aidx, values,
                   calls, collectionId, organizationId, session, probe>>

\* a variant that goes on whatever the status is
AfterLoggedIn_NoGate(r) ==
    IF ~r.ok THEN Fail(r)
    ELSE pc' = "sync" /\ outcome' = outcome /\ Store(r.ctx)

\* lines 277-280, once bw.logged_in is evaluated
AfterLoggedIn(r) ==
    IF ~r.ok THEN Fail(r)
    ELSE IF ~r.val
         THEN Fail(Raise(MkErr("NotLoggedIn", "Not logged into Bitwarden", "", << >>), r.ctx))
    ELSE pc' = "sync" /\ outcome' = outcome /\ Store(r.ctx)

\* lines 277-285
Gate ==
    /\ pc = "gate"
    /\ \E n \in FaultBudgets \cap {-1, 0} : AfterLoggedIn(logged_in(Ctx(n)))
    /\ UNCHANGED <<vault, vaultStatus, faultOut, kwargs, terms, idx, aidx, values, probe>>

\* a variant that goes on when the sync failed
AfterSync_Ignored(r) == pc' = "session" /\ outcome' = outcome /\ Store(r.ctx)

\* lines 287-288, once bw.sync() has run (or was skipped)
AfterSync(r) ==
    IF ~r.ok THEN Fail(r)
    ELSE pc' = "session" /\ outcome' = outcome /\ Store(r.ctx)

\* lines 287-288
SyncStep ==
    /\ pc = "sync"
    /\ \E n \in FaultBudgets \cap {-1, 0} :
         IF kwargs.sync THEN AfterSync(sync(Ctx(n))) ELSE AfterSync(Return(NoneV, Ctx(n)))
    /\ UNCHANGED <<vault, vaultStatus, faultOut, kwargs, terms, idx, aidx, values, probe>>

\* lines 289-290
SetSession ==
    /\ pc = "session"
    /\ session' = IF kwargs.session # "" THEN kwargs.session ELSE session
    /\ pc' = "loop"
    /\ UNCHANGED <<vault, vaultStatus, faultOut, kwargs, terms, idx, aidx, values,
                   outcome, calls, collectionId, organizationId, probe>>

\* what the last call made by the loop was and how it ended; from is the
\* index in calls of its first bw invocation
Observed(r, op, key) ==
    probe' = [op |-> op, key |-> key, from |-> Len(calls) + 1,
              ok |-> r.ok, val |-> r.val, err |-> r.err]

\* a variant that puts the new result in front
AfterGetEntry_Prepend(r) ==
    /\ Observed(r, "get_entry", terms[idx])
    /\ IF ~r.ok THEN Fail(r) /\ UNCHANGED <<values, idx>>
       ELSE /\ values' = <<r.val>> \o values
            /\ idx' = idx + 1
            /\ pc' = pc /\ outcome' = outcome /\ Store(r.ctx)

\* line 309: values.append(...)
AfterGetEntry(r) ==
    /\ Observed(r, "get_entry", terms[idx])
    /\ IF ~r.ok THEN Fail(r) /\ UNCHANGED <<values, idx>>
       ELSE /\ values' = Append(values, r.val)
            /\ idx' = idx + 1
            /\ pc' = pc /\ outcome' = outcome /\ Store(r.ctx)

\* lines 292, 308-309: one iteration of the loop without the attachments option
EntryStep ==
    /\ pc = "loop"
    /\ idx <= Len(terms)
    /\ ~kwargs.hasAttachments
    /\ \E n \in FaultBudgets :
         AfterGetEntry(get_entry(Ctx(n), terms[idx], kwargs.field,
                                 kwargs.organization, kwargs.collection))
    /\ UNCHANGED <<vault, vaultStatus, faultOut, kwargs, terms, aidx>>

EndsWithSlash(output) == Len(output) >= 1 /\ output[Len(output)] = "/"

\* line 296: kwargs.get('output', term)
OutputOf(term) == IF kwargs.hasOutput THEN kwargs.output ELSE term

\* lines 298, 300-307: the attachment key of the get_attachments call
AttachmentArg == IF kwargs.attachmentsIsList THEN kwargs.attachments[aidx]
                 ELSE kwargs.attachments

\* lines 299-307: the output argument of the get_attachments call
OutputArg(output) ==
    IF kwargs.attachmentsIsList /\ ~EndsWithSlash(output) THEN Append(output, "/")
    ELSE output

\* lines 299-307: the filename argument of the get_attachments call
FilenameArg(output) ==
    IF ~kwargs.attachmentsIsList /\ ~EndsWithSlash(output) THEN << >>
    ELSE AttachmentArg

\* lines 300-307: values.append(...), and the loops' advance
AfterGetAttachments(r, last) ==
    /\ Observed(r, "get_attachments", terms[idx])
    /\ IF ~r.ok THEN Fail(r) /\ UNCHANGED <<values, idx, aidx>>
       ELSE /\ values' = Append(values, r.val)
            /\ idx' = IF last THEN idx + 1 ELSE idx
            /\ aidx' = IF last THEN 1 ELSE aidx + 1
            /\ pc' = pc /\ outcome' = outcome /\ Store(r.ctx)

\* lines 292-307: one call of get_attachments in the loop with the
\* attachments option (one attachment of a list, or the single attachment)
AttachmentStep ==
    /\ pc = "loop"
    /\ idx <= Len(terms)
    /\ kwargs.hasAttachments
    /\ \E n \in FaultBudgets :
         IF kwargs.attachmentsIsList /\ Len(kwargs.attachments) = 0
         THEN /\ idx' = idx + 1
              /\ UNCHANGED <<values, aidx, pc, outcome, calls, collectionId,
                             organizationId, session, probe>>
         ELSE AfterGetAttachments(
                  get_attachments(Ctx(n), AttachmentArg, terms[idx],
                                  OutputArg(OutputOf(terms[idx])),
                                  FilenameArg(OutputOf(terms[idx])),
                                  kwargs.organization, kwargs.collection),
                  ~kwargs.attachmentsIsList \/ aidx >= Len(kwargs.attachments))
    /\ UNCHANGED <<vault, vaultStatus, faultOut, kwargs, terms>>

\* line 310
Finish ==
    /\ pc = "loop"
    /\ idx > Len(terms)
    /\ pc' = "done"
    /\ outcome' = Returned
    /\ UNCHANGED <<vault, vaultStatus, faultOut, kwargs, terms, idx, aidx, values,
                   calls, collectionId, organizationId, session, probe>>

----------------
(* Initial states: a vault, the options and the terms of one run            *)

\* the vaults of at most MaxItems items; item i has the id ItemIds[i]
VaultsOf(names, mems, fls, als) ==
    UNION { { [i \in 1..n |-> MkItem(i, f[i][1], f[i][2], f[i][3], f[i][4])] :
                f \in [1..n -> names \X mems \X fls \X als] } : n \in 0..MaxItems }

\* the sequences of 1..MaxTerms terms
TermsOf(S) == UNION { [1..n -> S] : n \in 1..MaxTerms }

Fields3 == << [name |-> "X", value |-> "v1"], [name |-> "Y", value |-> "v2"],
              [name |-> "X", value |-> "v3"] >>

Attachments2 == << [id |-> <<"a1">>, fileName |-> <<"id_rsa">>],
                   [id |-> <<"a2">>, fileName |-> <<"id_rsa">>] >>

KwargsOf(paths, fields, orgs, colls, syncs, sessions, atts, outs) ==
    { [path |-> p, field |-> f, organization |-> o, collection |-> c, sync |-> sy,
       session |-> se, hasAttachments |-> a.has, attachmentsIsList |-> a.isList,
       attachments |-> a.v, hasOutput |-> ou.has, output |-> ou.v] :
        p \in paths, f \in fields, o \in orgs, c \in colls, sy \in syncs,
        se \in sessions, a \in atts, ou \in outs }

NoAttachments == [has |-> FALSE, isList |-> FALSE, v |-> << >>]

NoOutput == [has |-> FALSE, v |-> << >>]

InitRun(vaults, statuses, faultOuts, kws, termSeqs) ==
    /\ vault \in vaults
    /\ vaultStatus \in statuses
    /\ faultOut \in faultOuts
    /\ kwargs \in kws
    /\ terms \in termSeqs
    /\ pc = "start"
    /\ idx = 1
    /\ aidx = 1
    /\ values = << >>
    /\ outcome = Running
    /\ calls = << >>
    /\ collectionId = NoneV
    /\ organizationId = NoneV
    /\ session = ""
    /\ probe = [op |-> "none"]

----------------------------------------------------------------------------
(* Spec: LookupModule.run as a whole, few vaults, every option              *)

FacadeVaults ==
    { << MkItem(1, <<"Shared", "Login">>, [organizationId |-> "o1", collectionIds |-> {"c1"}],
                Fields3, Attachments2) >>,
      << MkItem(1, <<"Shared">>, [organizationId |-> "o1", collectionIds |-> {"c1"}],
                Fields3, << [id |-> <<"a1">>, fileName |-> <<"id_rsa">>] >>),
         MkItem(2, <<"Shared", "Login">>, [organizationId |-> "o2", collectionIds |-> {"c2"}],
                << >>, << >>) >>,
      << MkItem(1, <<"Login">>, [organizationId |-> NoneV, collectionIds |-> {}],
                << >>, << >>),
         MkItem(2, <<"Shared">>, [organizationId |-> "o1", collectionIds |-> {"c1"}],
                Fields3, << [id |-> <<"a1">>, fileName |-> <<"id_rsa">>],
                            [id |-> <<"a2">>, fileName |-> <<"nokey">>] >>) >> }

FacadeKwargs ==
    KwargsOf({"bw", "missing"}, {<<"password">>, <<"item">>}, {NoneV}, {NoneV},
             BOOLEAN, {"", "tok"},
             { NoAttachments,
               [has |-> TRUE, isList |-> FALSE, v |-> <<"id_rsa">>],
               [has |-> TRUE, isList |-> TRUE, v |-> << <<"id_rsa">>, <<"nokey">> >>] },
             { NoOutput, [has |-> TRUE, v |-> <<"/tmp">>],
               [has |-> TRUE, v |-> <<"/tmp", "/">>] })

Init ==
    InitRun(FacadeVaults, {"unlocked", "locked", "unauthenticated", "malformed"},
            {"", "Vault is locked.", "You are not logged in.", "Failed to decrypt.",
             "Connection refused."},
            FacadeKwargs, TermsOf({<<"Shared">>, <<"i1">>}))

Next ==
    \/ Construct
    \/ Gate
    \/ SyncStep
    \/ SetSession
    \/ EntryStep
    \/ AttachmentStep
    \/ Finish

Spec == Init /\ [][Next]_vars

----------------------------------------------------------------------------------------------------------------------------------------
(* SpecResolve: LookupModule.run without the attachments option, over every *)
(* vault of at most MaxItems items and every kind of scope reference        *)

ResolveVaults == VaultsOf(ItemNames, Memberships, {Fields3}, {<< >>})

ResolveKwargs ==
    KwargsOf({"bw"}, {<<"password">>, <<"item">>, <<"id">>},
             {NoneV, "Acme", "o2", "Nope"}, {NoneV, "Ops", "c2", "Nope"},
             {FALSE}, {""}, {NoAttachments}, {NoOutput})

ResolveTerms == TermsOf({<<"Shared">>, <<"Shared", "Login">>, <<"i1">>, <<"i2">>})

InitResolve ==
    InitRun(ResolveVaults, {"unlocked"}, {""}, ResolveKwargs, ResolveTerms)

NextResolve ==
    \/ Construct
    \/ Gate
    \/ SyncStep
    \/ SetSession
    \/ EntryStep
    \/ Finish

SpecResolve == InitResolve /\ [][NextResolve]_vars

----------------
(* SpecScope: isInCollectionAndOranisation applied to one Bitwarden         *)
(* instance, MaxChecks times, with every item membership and scope          *)

CollectionRefs == {NoneV, "c1", "c2", "c9", "Ops", "DevOps", "Nope"}

OrganizationRefs == {NoneV, "o1", "o2", "Acme", "Beta", "Nope"}

ScopeItems == { MkItem(1, <<"Shared">>, m, << >>, << >>) : m \in Memberships }

AfterProbe(r, p) ==
    /\ probe' = [p EXCEPT !.ok = r.ok, !.val = r.val, !.err = r.err]
    /\ Store(r.ctx)

ScopeCheck ==
    /\ pc = "client"
    /\ idx <= MaxChecks
    /\ \E item \in ScopeItems, organization \in OrganizationRefs,
          collection \in CollectionRefs, n \in FaultBudgets \cap {-1, 0} :
         AfterProbe(isInCollectionAndOranisation(Ctx(n), item, organization, collection),
                    [op |-> "scope", item |-> item, organization |-> organization,
                     collection |-> collection, cachedCollectionId |-> collectionId,
                     cachedOrganizationId |-> organizationId, from |-> Len(calls) + 1,
                     ok |-> FALSE, val |-> NoneV, err |-> NoErr])
    /\ idx' = idx + 1
    /\ UNCHANGED <<vault, vaultStatus, faultOut, kwargs, terms, pc, aidx, values, outcome>>

\* a Bitwarden instance right after construction, used directly
InitClient(vaults, faultOuts, kws) ==
    /\ vault \in vaults
    /\ vaultStatus = "unlocked"
    /\ faultOut \in faultOuts
    /\ kwargs \in kws
    /\ terms = << >>
    /\ pc = "client"
    /\ idx = 1
    /\ aidx = 1
    /\ values = << >>
    /\ outcome = Running
    /\ calls = << >>
    /\ collectionId = NoneV
    /\ organizationId = NoneV
    /\ session = ""
    /\ probe = [op |-> "none"]

InitScope == InitClient({<< >>}, {"", "Vault is locked."}, {[path |-> "bw"]})

NextScope == ScopeCheck

SpecScope == InitScope /\ [][NextScope]_vars

----------------------------------------------------------------------------------------------------------------------------------------
(* SpecNav: the field navigation of get_entry applied to the JSON of an     *)
(* item, for every item shape and a set of field paths                      *)

NavItems ==
    { MkItem(1, <<"Google">>, m, fl, al) :
        m \in Memberships, fl \in FieldLists, al \in AttachmentLists }

NavFields ==
    { <<"id">>, <<"nope">>, <<"login">>, <<"login", "password">>, <<"login", "nope">>,
      <<"id", "x">>, <<"organizationId", "x">>,
      <<"fields">>, <<"fields", "X">>, <<"fields", "Y">>, <<"fields", "Z">>,
      <<"fields", "X", "more">>,
      <<"attachments">>, <<"attachments", "id">>, <<"attachments", "nope">>,
      <<"attachments", "id", "x">>, <<"collectionIds">>, <<"collectionIds", "x">> }

AfterNavigate(nav, p) ==
    probe' = [p EXCEPT !.ok = nav.ok, !.val = nav.val, !.err = nav.err]

NavigateStep ==
    /\ pc = "client"
    /\ Len(vault) = 1
    /\ AfterNavigate(Navigate(ItemJson(vault[1]), kwargs.field, vault[1].name),
                     [op |-> "navigate", item |-> vault[1], field |-> kwargs.field,
                      key |-> vault[1].name,
                      ok |-> FALSE, val |-> NoneV, err |-> NoErr])
    /\ UNCHANGED <<vault, vaultStatus, faultOut, kwargs, terms, pc, idx, aidx, values,
                   outcome, calls, collectionId, organizationId, session>>

\* the instance holds the item navigated, the field option is the path
InitNav ==
    InitClient({ <<it>> : it \in NavItems }, {""},
               { [path |-> "bw", field |-> f] : f \in NavFields })

NextNav == NavigateStep

SpecNav == InitNav /\ [][NextNav]_vars

----------------------------------------------------------------------------
(* SpecRun: _run applied directly, MaxChecks times, to every kind of        *)
(* invocation, on a bw that answers or fails                                *)

RunVaults ==
    { << >>,
      << MkItem(1, <<"Shared">>, [organizationId |-> "o1", collectionIds |-> {"c1"}],
                << >>, << [id |-> <<"a1">>, fileName |-> <<"id_rsa">>] >>) >>,
      << MkItem(1, <<"Shared">>, [organizationId |-> "o1", collectionIds |-> {"c1"}],
                << >>, << >>),
         MkItem(2, <<"Shared", "Login">>, [organizationId |-> NoneV, collectionIds |-> {}],
                << >>, << >>) >> }

RunCalls ==
    { MkCall("status", << >>, << >>, << >>, << >>, << >>),
      MkCall("sync", << >>, << >>, << >>, << >>, << >>),
      MkCall("get", <<"item">>, <<"Shared">>, << >>, << >>, << >>),
      MkCall("get", <<"password">>, <<"i1">>, << >>, << >>, << >>),
      MkCall("get", <<"fields", "X">>, <<"i1">>, << >>, << >>, << >>),
      MkCall("get", <<"organization">>, <<"Acme">>, << >>, << >>, << >>),
      MkCall("get", <<"organization">>, <<"Nope">>, << >>, << >>, << >>),
      MkCall("get", <<"attachment">>, <<"id_rsa">>, << >>, <<"/tmp", "/", "id_rsa">>, <<"i1">>),
      MkCall("list", <<"items">>, << >>, << <<"Shared">> >>, << >>, << >>),
      MkCall("list", <<"collections">>, <<"Ops">>, << >>, << >>, << >>) }

RunFaultOuts ==
    { "", "Vault is locked.", "You are not logged in.", "Failed to decrypt.",
      "Connection refused.", "Vault is locked. Not found.",
      "Not found. You are not logged in." }

AfterRun(r, p) ==
    /\ probe' = [p EXCEPT !.ok = r.ok, !.val = r.val, !.err = r.err]
    /\ Store(r.ctx)

RunStep ==
    /\ pc = "client"
    /\ idx <= MaxChecks
    /\ \E call \in RunCalls, n \in FaultBudgets \cap {-1, 0} :
         AfterRun(_run(Ctx(n), call),
                  [op |-> "_run", call |-> call, from |-> Len(calls) + 1,
                   ok |-> FALSE, val |-> NoneV, err |-> NoErr])
    /\ idx' = idx + 1
    /\ UNCHANGED <<vault, vaultStatus, faultOut, kwargs, terms, pc, aidx, values, outcome>>

InitRunner == InitClient(RunVaults, RunFaultOuts, {[path |-> "bw"]})

NextRunner == RunStep

SpecRun == InitRunner /\ [][NextRunner]_vars

----------------------------------------------------------------------------
(* SpecFetch: LookupModule.run with and without the attachments option,     *)
(* under scopes that resolve and scopes that do not, on a bw that answers   *)
(* or starts to fail                                                        *)

FetchKwargs ==
    KwargsOf({"bw"}, {<<"id">>, <<"item">>}, {NoneV, "Acme", "Nope"}, {NoneV, "Ops", "Nope"},
             {FALSE}, {""},
             { NoAttachments,
               [has |-> TRUE, isList |-> FALSE, v |-> <<"id_rsa">>],
               [has |-> TRUE, isList |-> TRUE, v |-> << <<"id_rsa">>, <<"nokey">> >>] },
             {NoOutput})

InitFetch ==
    InitRun(FacadeVaults, {"unlocked"}, {"", "Vault is locked."}, FetchKwargs,
            TermsOf({<<"Shared">>, <<"Shared", "Login">>, <<"i1">>}))

NextFetch ==
    \/ Construct
    \/ Gate
    \/ SyncStep
    \/ SetSession
    \/ EntryStep
    \/ AttachmentStep
    \/ Finish

SpecFetch == InitFetch /\ [][NextFetch]_vars

----------------
(* C1 *)

\* the id a collection reference stands for: the reference itself when it is
\* a UUID, else the id of the first collection of that name (NoneV: none)
CollectionIdOf(ref) ==
    LET named == SelectSeq(CollectionDir, LAMBDA c : c.name = ref)
    IN  IF is_valid_uuid(ref) THEN ref
        ELSE IF Len(named) >= 1 THEN named[1].id ELSE NoneV

\* the id an organization reference stands for
OrganizationIdOf(ref) ==
    LET named == SelectSeq(OrganizationDir, LAMBDA o : o.name = ref)
    IN  IF is_valid_uuid(ref) THEN ref
        ELSE IF Len(named) >= 1 THEN named[1].id ELSE NoneV

\* matchesScope as the claim states it
MatchesScope(item, organization, collection) ==
    /\ collection = NoneV \/ CollectionIdOf(collection) \in item.collectionIds
    /\ \/ organization = NoneV
       \/ /\ OrganizationIdOf(organization) # NoneV
          /\ OrganizationIdOf(organization) = item.organizationId

\* C1: whenever isInCollectionAndOranisation returns, it returns TRUE iff
\* (the collection scope is None or its resolved id is in item.collectionIds)
\* and (the organization scope is None or its resolved id equals
\* item.organizationId).
C1_MatchesScope ==
    (probe.op = "scope" /\ probe.ok)
        => (probe.val <=> MatchesScope(probe.item, probe.organization, probe.collection))

----------------------------------------------------------------------------
(* C2, C3, C4: the item a lookup resolves to *)

\* the id of the vault item a value returned by get_entry was read from: the
\* raw output of `bw get` names its item, a navigated "id" is the id itself
ValueItemId(val) == IF "item" \in DOMAIN val THEN val.item.id ELSE <<val.v>>

VaultItem(id) == vault[CHOOSE i \in 1..Len(vault) : vault[i].id = id]

\* the last get_entry call's direct `get <field> <term>` failed
DirectGetFailed == calls[probe.from].rc # 0

\* the last get_entry call issued `get <field> <foundId>`: searchForId found an id
ResolvedBySearch ==
    \E k \in (probe.from + 1)..Len(calls) :
        calls[k].cmd = "get" /\ calls[k].obj = kwargs.field /\ calls[k].key # probe.key

\* C2: with a collection scope C, a get_entry whose direct get failed returns
\* only a value of an item whose collectionIds contains C's resolved id, and
\* what searchForId resolved to is an item named exactly as the term.
C2_CollectionScoped ==
    (probe.op = "get_entry" /\ probe.ok /\ kwargs.collection # NoneV /\ DirectGetFailed)
        => /\ CollectionIdOf(kwargs.collection)
                  \in VaultItem(ValueItemId(probe.val)).collectionIds
           /\ ResolvedBySearch => VaultItem(ValueItemId(probe.val)).name = probe.key

\* two items of the term's name, the first outside the requested collection,
\* the second in it and the one resolved to
C2_Witness ==
    /\ probe.op = "get_entry" /\ probe.ok /\ kwargs.collection # NoneV
    /\ DirectGetFailed /\ ResolvedBySearch
    /\ Len(vault) = 2
    /\ vault[1].name = probe.key /\ vault[2].name = probe.key
    /\ CollectionIdOf(kwargs.collection) \notin vault[1].collectionIds
    /\ ValueItemId(probe.val) = vault[2].id

\* the items named name that satisfy the scope of the run
InScope(name) ==
    { i \in 1..Len(vault) :
        vault[i].name = name /\ MatchesScope(vault[i], kwargs.organization, kwargs.collection) }

\* C3: in a run over <<N, id>> under a scope in which exactly one item is
\* named N and id is that item's id, both lookups succeed and yield the same
\* item.
C3_NameAndIdAgree ==
    (/\ pc \in {"done", "failed"}
     /\ Len(terms) = 2
     /\ kwargs.organization # NoneV \/ kwargs.collection # NoneV
     /\ Cardinality(InScope(terms[1])) = 1
     /\ \E i \in InScope(terms[1]) : vault[i].id = terms[2])
        => /\ pc = "done"
           /\ ValueItemId(values[1]) = ValueItemId(values[2])

\* the requested collection is a display name that no collection has
CollectionUnknown ==
    /\ kwargs.collection # NoneV
    /\ ~is_valid_uuid(kwargs.collection)
    /\ CollectionIdOf(kwargs.collection) = NoneV

IsCollectionNotFound(err) ==
    /\ err.kind = "ScopeNotFoundError"
    /\ err.msg = "no collectionId found"
    /\ err.arg = <<kwargs.collection>>

ItemFetchedAndCollectionsListed ==
    /\ Len(calls) >= probe.from + 1
    /\ calls[Len(calls) - 1].cmd = "get" /\ calls[Len(calls) - 1].obj = <<"item">>
    /\ calls[Len(calls) - 1].rc = 0
    /\ calls[Len(calls)].cmd = "list" /\ calls[Len(calls)].obj = <<"collections">>
    /\ calls[Len(calls)].rc = 0

----------------------------------------------------------------------------
(* C5, C6: the field navigation *)

\* the navigation of a path that does not start with `fields` comes to a
\* segment that the current value does not have: an object without the key,
\* a scalar, or a non-empty sequence with an element that is not an object
\* having the key
RECURSIVE SegmentAbsent(_, _, _)
SegmentAbsent(item, splitted, i) ==
    IF i > Len(splitted) THEN FALSE
    ELSE IF HasKey(item, splitted[i]) THEN SegmentAbsent(item.v[splitted[i]], splitted, i + 1)
    ELSE IF item.t # "list" THEN TRUE
    ELSE IF Len(item.v) = 0 THEN FALSE
    ELSE IF \A j \in 1..Len(item.v) : HasKey(item.v[j], splitted[i])
         THEN SegmentAbsent(JList([j \in 1..Len(item.v) |-> item.v[j].v[splitted[i]]]),
                            splitted, i + 1)
    ELSE TRUE

\* C5: a navigation, not of `fields`, that comes to a segment absent from the
\* current value ends with the field-not-found error naming the field path
\* and the term, and returns no value.
C5_AbsentSegmentRaises ==
    (/\ probe.op = "navigate"
     /\ probe.field[1] # "fields"
     /\ SegmentAbsent(ItemJson(probe.item), probe.field, 1))
        => /\ ~probe.ok
           /\ probe.err.kind = "FieldNotFoundError"
           /\ probe.err.arg = probe.field \o probe.key

\* the values of the entries of the item's fields list named x, in list order
ValuesNamed(it, x) ==
    LET named == SelectSeq(it.fields, LAMBDA e : e.name = x)
    IN  JList([i \in 1..Len(named) |-> JStr(named[i].value)])

\* C6: navigating fields.X returns the sequence of the values of exactly the
\* entries of the fields list named X, in list order, also when there is one.
C6_FieldsReturnsSequence ==
    (probe.op = "navigate" /\ Len(probe.field) = 2 /\ probe.field[1] = "fields")
        => /\ probe.ok
           /\ probe.val.t = "list"
           /\ probe.val.v = ValuesNamed(probe.item, probe.field[2]).v

\* exactly one entry is named X: the result is the one-element sequence
C6_Witness ==
    /\ probe.op = "navigate" /\ probe.field = <<"fields", "X">>
    /\ Len(probe.item.fields) = 1
    /\ probe.ok /\ probe.val.t = "list" /\ probe.val.v = <<JStr("v1")>>

----------------------------------------------------------------------------
(* C7, C8: what get_entry and get_attachments do with a failure            *)

\* the invocations of the last get_entry / get_attachments call
ProbeCalls == probe.from..Len(calls)

\* the invocation failed, and not as an ambiguous result or a not-found
OtherFailure(c) ==
    /\ c.rc # 0
    /\ ~HasMoreThanOneResult(Classify(c.out, c))
    /\ ~HasNotFound(Classify(c.out, c))

\* C7: when an invocation inside get_entry or get_attachments fails with a
\* kind other than ambiguous-result and not-found, the operation ends with
\* the error of that kind, whatever the field.
C7_OtherErrorsPropagate ==
    \A k \in 1..Len(calls) :
        (/\ probe.op \in {"get_entry", "get_attachments"}
         /\ k \in ProbeCalls
         /\ OtherFailure(calls[k]))
            => /\ ~probe.ok
               /\ probe.err.kind = Classify(calls[k].out, calls[k]).kind

\* an invocation of the last get_attachments call downloaded an attachment
SomeDownloadSucceeded ==
    \E k \in ProbeCalls :
        calls[k].cmd = "get" /\ calls[k].obj = <<"attachment">> /\ calls[k].rc = 0

\* C8: get_attachments returns normally only when one of its download
\* invocations succeeded; when none did, it raises.
C8_ReturnsOnlyDownloads ==
    (probe.op = "get_attachments" /\ probe.ok) => SomeDownloadSucceeded

----------------------------------------------------------------------------
(* C9, C10: the order of the invocations of one run                         *)

VaultCommands == {"sync", "get", "list"}

\* the first invocation of the run was `bw status` and reported 'unlocked'
StatusReportedUnlocked ==
    /\ Len(calls) >= 1
    /\ calls[1].cmd = "status" /\ calls[1].rc = 0
    /\ vaultStatus = "unlocked"

\* the first invocation of the run was `bw status` and reported another status
StatusReportedOther ==
    /\ Len(calls) >= 1
    /\ calls[1].cmd = "status" /\ calls[1].rc = 0
    /\ vaultStatus \in {"locked", "unauthenticated"}

IsNotLoggedIn(err) == err.kind = "NotLoggedIn" /\ err.msg = "Not logged into Bitwarden"

\* C9: a sync, get or list invocation occurs only after the status invocation
\* that reported 'unlocked', no step after the gate is taken without it, and
\* a run whose status invocation reported another status ends with the
\* not-logged-in error after that one invocation, with no term processed.
C9_StatusGateFirst ==
    /\ \A k \in 1..Len(calls) :
           calls[k].cmd \in VaultCommands => (k > 1 /\ StatusReportedUnlocked)
    /\ pc \in {"sync", "session", "loop", "done"} => StatusReportedUnlocked
    /\ StatusReportedOther
           => /\ pc = "failed"
              /\ IsNotLoggedIn(outcome.err)
              /\ Len(calls) = 1 /\ values = << >> /\ idx = 1

\* a locked vault: the run ended at the gate
C9_Witness ==
    /\ pc = "failed"
    /\ vaultStatus = "locked"
    /\ StatusReportedOther
    /\ IsNotLoggedIn(outcome.err)

\* C10: with the sync option, the invocation after the status invocation is
\* the sync, every get or list invocation comes after a successful sync, and
\* a run whose sync failed ends with the sync's error after these two
\* invocations, with no result.
C10_SyncBeforeTerms ==
    kwargs.sync
        => /\ Len(calls) >= 2 => (calls[1].cmd = "status" /\ calls[2].cmd = "sync")
           /\ pc \in {"session", "loop", "done"} => (Len(calls) >= 2 /\ calls[2].rc = 0)
           /\ \A k \in 1..Len(calls) :
                  calls[k].cmd \in {"get", "list"} => (k > 2 /\ calls[2].rc = 0)
           /\ (Len(calls) >= 2 /\ calls[2].rc # 0)
                  => /\ pc = "failed"
                     /\ outcome.err = Classify(calls[2].out, calls[2])
                     /\ Len(calls) = 2 /\ values = << >> /\ idx = 1

\* the sync failed after the gate was passed
C10_Witness ==
    /\ kwargs.sync
    /\ pc = "failed"
    /\ Len(calls) = 2
    /\ calls[1].cmd = "status" /\ calls[1].rc = 0
    /\ calls[2].cmd = "sync" /\ calls[2].rc # 0
    /\ outcome.err.kind = "VaultLockedError"

----------------------------------------------------------------------------
(* C11: the results of a run                                                *)

\* what get_entry returns for term i when nothing outside the vault fails
EntryOf(i) ==
    get_entry(Ctx(-1), terms[i], kwargs.field, kwargs.organization, kwargs.collection).val

\* what get_attachments returns for attachment j of the list and term i
AttachmentOf(i, j) ==
    get_attachments(Ctx(-1), kwargs.attachments[j], terms[i],
                    OutputArg(OutputOf(terms[i])), kwargs.attachments[j],
                    kwargs.organization, kwargs.collection).val

\* the number of results one term contributes
PerTerm ==
    IF kwargs.hasAttachments /\ kwargs.attachmentsIsList THEN Len(kwargs.attachments)
    ELSE 1

\* C11: a run that returned has PerTerm results for each term, and (when
\* nothing outside the vault fails) the result at position i without the
\* attachments option is the result for term i, and with a list of k
\* attachments the result at position (i-1)*k + j is that of attachment j
\* for term i.
C11_ResultsInOrder ==
    pc = "done"
        => /\ Len(values) = PerTerm * Len(terms)
           /\ (faultOut = "" /\ ~kwargs.hasAttachments)
                  => \A i \in 1..Len(terms) : values[i] = EntryOf(i)
           /\ (faultOut = "" /\ kwargs.hasAttachments /\ kwargs.attachmentsIsList)
                  => \A i \in 1..Len(terms) : \A j \in 1..PerTerm :
                         values[(i - 1) * PerTerm + j] = AttachmentOf(i, j)

\* two terms that resolve to different items, both looked up
C11_Witness ==
    /\ pc = "done" /\ faultOut = "" /\ ~kwargs.hasAttachments
    /\ Len(terms) = 2 /\ Len(values) = 2
    /\ values[1].item.id # values[2].item.id

----------------------------------------------------------------------------
(* C12: the output path of a download                                       *)

\* the output directory without its trailing separator
StripSlash(output) ==
    IF EndsWithSlash(output) THEN SubSeq(output, 1, Len(output) - 1) ELSE output

\* the directory, one separator, the attachment name
ExpectedPath(term, name) == StripSlash(OutputOf(term)) \o <<"/">> \o name

IsDownload(c) == c.cmd = "get" /\ c.obj = <<"attachment">>

\* C12: every download invocation of a get_attachments call made by the run
\* carries the output path formed by the output directory, one separator and
\* the attachment name requested (the key of the call's first invocation).
C12_OutputPath ==
    probe.op = "get_attachments"
        => \A k \in ProbeCalls :
               IsDownload(calls[k])
                   => calls[k].output = ExpectedPath(probe.key, calls[probe.from].key)

----------------------------------------------------------------------------
(* C13: _run                                                                *)

\* the error kind the claim fixes for an output
ExpectedKind(out) ==
    IF StartsWith(out, "Vault is locked.") THEN "VaultLockedError"
    ELSE IF StartsWith(out, "You are not logged in.") THEN "NotLoggedInError"
    ELSE IF StartsWith(out, "Failed to decrypt.") THEN "SessionInvalidError"
    ELSE IF StartsWith(out, "Not found.") THEN "ItemNotFoundError"
    ELSE "UnknownCliError"

\* C13: a call of _run adds exactly one invocation, the one it was called
\* for, to the log; with exit code 0 it returns what bw printed and raises
\* nothing; with another exit code it raises the error of the kind fixed by
\* the output's prefix, the not-found error carrying the invocation's last
\* argument and the unknown error the raw output.
C13_RunClassifies ==
    probe.op = "_run"
        => /\ Len(calls) = probe.from
           /\ [calls[probe.from] EXCEPT !.rc = 0, !.out = "", !.session = ""] = probe.call
           /\ calls[probe.from].rc = 0
                  => /\ probe.ok /\ probe.err = NoErr
                     /\ probe.val = BwExec(vault, vaultStatus, faultOut, TRUE,
                                           calls[probe.from]).val
           /\ calls[probe.from].rc # 0
                  => /\ ~probe.ok
                     /\ probe.err.kind = ExpectedKind(calls[probe.from].out)
                     /\ probe.err.kind = "ItemNotFoundError"
                            => probe.err.arg = LastArg(probe.call)
                     /\ probe.err.kind = "UnknownCliError"
                            => probe.err.out = calls[probe.from].out

\* an output starting with one known prefix and containing another
C13_Witness ==
    /\ probe.op = "_run"
    /\ calls[probe.from].rc # 0
    /\ calls[probe.from].out = "Not found. You are not logged in."
    /\ probe.err.kind = "ItemNotFoundError"
    /\ probe.err.arg = <<"Shared">>

----------------------------------------------------------------------------
(* C14: the order of the strategies of get_entry                            *)

IsItemSearch(c) == c.cmd = "list" /\ c.obj = <<"items">>

\* the item searches of the last get_entry call, as indexes into calls
ItemSearches == { k \in ProbeCalls : IsItemSearch(calls[k]) }

\* C14: the first invocation of a get_entry call is the direct get of the
\* field for the term; when it succeeds its output is returned after that
\* one invocation (for the first term: with no scope id resolved); item
\* searches come only after a failed direct get, at most two of them, the
\* first with the full term and the second with the term split, and the
\* second only when the first failed or no item named as the term matches
\* the scope.
C14_StrategyOrder ==
    probe.op = "get_entry"
        => /\ calls[probe.from].cmd = "get"
           /\ calls[probe.from].obj = kwargs.field
           /\ calls[probe.from].key = probe.key
           /\ calls[probe.from].rc = 0
                  => /\ probe.ok /\ Len(calls) = probe.from
                     /\ probe.val = BwExec(vault, vaultStatus, faultOut, TRUE,
                                           calls[probe.from]).val
                     /\ idx = 2 => (collectionId = NoneV /\ organizationId = NoneV)
           /\ ItemSearches # {} => calls[probe.from].rc # 0
           /\ Cardinality(ItemSearches) <= 2
           /\ \A k \in ItemSearches :
                  IF \A j \in ItemSearches : k <= j
                  THEN calls[k].search = <<probe.key>>
                  ELSE /\ calls[k].search = SplitWords(probe.key)
                       /\ \E j \in ItemSearches :
                              j < k /\ (calls[j].rc # 0 \/ InScope(probe.key) = {})

\* the search with the split term was issued for a term of two words
C14_Witness ==
    /\ probe.op = "get_entry"
    /\ Len(probe.key) = 2
    /\ calls[probe.from].rc # 0
    /\ Cardinality(ItemSearches) = 2
    /\ \E k \in ItemSearches : calls[k].search = SplitWords(probe.key)

----------------------------------------------------------------------------
(* C15: the file-name fallback of get_attachments                           *)

\* the download invocations of the last get_attachments call after its first
LaterDownloads == { k \in ProbeCalls : k > probe.from /\ IsDownload(calls[k]) }

\* the retry with the resolved item id is the first of them
IsRetry(k) == k \in LaterDownloads /\ \A j \in LaterDownloads : k <= j

\* the call fetched the full item to look for the attachment by file name
FallbackTaken ==
    \E k \in ProbeCalls : calls[k].cmd = "get" /\ calls[k].obj = <<"item">>

\* C15: a get_attachments call takes the file-name fallback exactly when
\* its retry with the resolved item id failed with the ambiguous-result
\* error.
C15_FallbackOnRetryAmbiguity ==
    probe.op = "get_attachments"
        => (FallbackTaken
                <=> \E k \in ProbeCalls :
                        /\ IsRetry(k)
                        /\ calls[k].rc # 0
                        /\ HasMoreThanOneResult(Classify(calls[k].out, calls[k])))

----------------------------------------------------------------------------
(* C16: the value a navigation returns                                      *)

JBad == [t |-> "bad", v |-> NoneV]

AllObjects(item) == \A j \in 1..Len(item.v) : item.v[j].t = "obj"

\* the values of the entries of a list of objects that are named x
NamedValues(item, x) ==
    LET named == SelectSeq(item.v, LAMBDA e : HasKey(e, "name") /\ e.v["name"] = JStr(x))
    IN  JList([j \in 1..Len(named) |-> named[j].v["value"]])

\* every segment from i on applied to item, left to right: the member of an
\* object, in a `fields` path the values of a list's entries of that name,
\* else the projection of a list of objects; JBad when a segment applies to
\* nothing
RECURSIVE Reduce(_, _, _)
Reduce(item, splitted, i) ==
    IF i > Len(splitted) THEN item
    ELSE IF HasKey(item, splitted[i]) THEN Reduce(item.v[splitted[i]], splitted, i + 1)
    ELSE IF item.t = "list" /\ splitted[1] = "fields" /\ AllObjects(item)
         THEN Reduce(NamedValues(item, splitted[i]), splitted, i + 1)
    ELSE IF /\ item.t = "list" /\ splitted[1] # "fields" /\ Len(item.v) > 0
            /\ \A j \in 1..Len(item.v) : HasKey(item.v[j], splitted[i])
         THEN Reduce(JList([j \in 1..Len(item.v) |-> item.v[j].v[splitted[i]]]),
                     splitted, i + 1)
    ELSE JBad

\* C16: a navigation that returns a value returns the result of applying
\* every segment of the field path, left to right; none is ignored.
C16_AllSegmentsConsumed ==
    (probe.op = "navigate" /\ probe.ok)
        => /\ Reduce(ItemJson(probe.item), probe.field, 1).t # "bad"
           /\ probe.val = Reduce(ItemJson(probe.item), probe.field, 1)

----------------------------------------------------------------------------
(* C17: the number of invocations of one call                               *)

\* the number of bw invocations the last get_entry / get_attachments made
ProbeCallCount == Len(calls) - probe.from + 1

\* C17: a get_entry call ends (with a value or an error) after at most 8
\* invocations of bw, a get_attachments call after at most 14.
C17_BoundedCalls ==
    /\ probe.op = "get_entry" => ProbeCallCount <= 8
    /\ probe.op = "get_attachments" => ProbeCallCount <= 14

\* a get_entry call that made 8 invocations
C17_Witness == probe.op = "get_entry" /\ ProbeCallCount = 8

----------------------------------------------------------------------------
(* C18: the cached scope ids                                                *)

IsCollectionListing(c) == c.cmd = "list" /\ c.obj = <<"collections">>

IsOrganizationGet(c) == c.cmd = "get" /\ c.obj = <<"organization">>

----------------------------------------------------------------------------
(* C19: the session token                                                   *)

\* C19: in a run with a session option, the status and sync invocations run
\* in the inherited environment and every get and list invocation carries
\* the caller's token.
C19_SessionAfterGate ==
    kwargs.session # ""
        => \A k \in 1..Len(calls) :
               /\ calls[k].cmd \in {"status", "sync"} => calls[k].session = "inherited"
               /\ calls[k].cmd \in {"get", "list"} => calls[k].session = kwargs.session

\* status, sync, then a get with the token
C19_Witness ==
    /\ kwargs.session = "tok" /\ kwargs.sync
    /\ Len(calls) >= 3
    /\ calls[1].cmd = "status" /\ calls[1].session = "inherited"
    /\ calls[2].cmd = "sync" /\ calls[2].session = "inherited"
    /\ calls[3].cmd = "get" /\ calls[3].session = "tok"

====
